---- MODULE Spec2Model ----
(***************************************************************************)
(* Backtracking puzzles: the Warnsdorff-guided knight's tour                *)
(* (knights_tour/main.cpp) and the cannibals/explorers river crossing.      *)
(*                                                                          *)
(* A Bitboard (uint64_t) is modelled as the set of its set bit positions,   *)
(* a subset of 0..63: bit operations become the set operations they         *)
(* compute, shifts drop the bits that leave the 64-bit word.                *)
(***************************************************************************)
EXTENDS Integers, Sequences, FiniteSets, TLC

(***************************************************************************)
(* Knight's tour: constants and bit helpers.                                *)
(***************************************************************************)
noSq == 64

Bits == 0..63

FullBB == Bits

\* Mutant of ShiftL: a rotation, the bits shifted out of the word come back in
\* at the low end.
ShiftLRotate(b, k) == {(x + k) % 64 : x \in b}

ShiftL(b, k) == {x + k : x \in b} \cap Bits

ShiftR(b, k) == {x - k : x \in b} \cap Bits

Not(b) == Bits \ b

FileABB == {8 * r : r \in 0..7}

FileBBB == ShiftL(FileABB, 1)

FileGBB == ShiftL(FileABB, 6)

FileHBB == ShiftL(FileABB, 7)

lsb(b) == CHOOSE x \in b : \A y \in b : x <= y

bitCount(b) == Cardinality(b)

\* Mutant of KnightShifts: the << 15 shift lost its file-A mask, so a knight on
\* file A wraps to file H of the next rank.
KnightShiftsWrap(sq) ==
    LET bb == {sq}
    IN  ShiftL(bb, 15)
        \cup ShiftL(bb \cap Not(FileHBB), 17)
        \cup ShiftL(bb \cap Not(FileABB \cup FileBBB), 6)
        \cup ShiftL(bb \cap Not(FileGBB \cup FileHBB), 10)
        \cup ShiftR(bb \cap Not(FileABB), 17)
        \cup ShiftR(bb \cap Not(FileHBB), 15)
        \cup ShiftR(bb \cap Not(FileABB \cup FileBBB), 10)
        \cup ShiftR(bb \cap Not(FileGBB \cup FileHBB), 6)

\* The eight masked shifts of genMoveBoard, before visited squares are removed.
KnightShifts(sq) ==
    LET bb == {sq}
    IN  ShiftL(bb \cap Not(FileABB), 15)
        \cup ShiftL(bb \cap Not(FileHBB), 17)
        \cup ShiftL(bb \cap Not(FileABB \cup FileBBB), 6)
        \cup ShiftL(bb \cap Not(FileGBB \cup FileHBB), 10)
        \cup ShiftR(bb \cap Not(FileABB), 17)
        \cup ShiftR(bb \cap Not(FileHBB), 15)
        \cup ShiftR(bb \cap Not(FileABB \cup FileBBB), 10)
        \cup ShiftR(bb \cap Not(FileGBB \cup FileHBB), 6)

\* KnightShifts tabulated once per square (the shifts do not depend on the state).
AttackTable == [sq \in Bits |-> KnightShifts(sq)]

\* Mutant of genMoveBoard: the visited squares are not masked out.
genMoveBoardUnmasked(sq, visited) == AttackTable[sq]

genMoveBoard(sq, visited) == AttackTable[sq] \ visited

\* A freshly initialised move list: eight {noSq, 9} slots.
EmptyMoves == [k \in 1..8 |-> <<noSq, 9>>]

\* Mutant of InsertMove: the comparison is >= instead of >, so a new candidate
\* is moved in front of the candidates of equal degree.
RECURSIVE InsertMoveUnstable(_, _, _)
InsertMoveUnstable(moves, i, newSq) ==
    IF i >= 0 /\ moves[i + 1][2] >= newSq[2]
    THEN InsertMoveUnstable([moves EXCEPT ![i + 2] = moves[i + 1]], i - 1, newSq)
    ELSE [moves EXCEPT ![i + 2] = newSq]

\* Mutant of InsertMove: the comparison is < instead of >, so the list is
\* ordered by descending degree.
RECURSIVE InsertMoveDescending(_, _, _)
InsertMoveDescending(moves, i, newSq) ==
    IF i >= 0 /\ moves[i + 1][2] < newSq[2]
    THEN InsertMoveDescending([moves EXCEPT ![i + 2] = moves[i + 1]], i - 1, newSq)
    ELSE [moves EXCEPT ![i + 2] = newSq]

\* The inner while loop of genList: slots are 0-based in the code, so slot i is moves[i + 1].
RECURSIVE InsertMove(_, _, _)
InsertMove(moves, i, newSq) ==
    IF i >= 0 /\ moves[i + 1][2] > newSq[2]
    THEN InsertMove([moves EXCEPT ![i + 2] = moves[i + 1]], i - 1, newSq)
    ELSE [moves EXCEPT ![i + 2] = newSq]

\* The outer while(attacks) loop of genList.
RECURSIVE GenLoop(_, _, _, _)
GenLoop(moves, attacks, count, visited) ==
    IF attacks = {}
    THEN moves
    ELSE LET sq == lsb(attacks)
             newSq == <<sq, bitCount(genMoveBoard(sq, visited))>>
         IN  GenLoop(InsertMove(moves, count - 1, newSq), attacks \ {sq}, count + 1, visited)

genList(sq, visited) == GenLoop(EmptyMoves, genMoveBoard(sq, visited), 0, visited)

(***************************************************************************)
(* State of a Backtrack object and of the recursion of makeMove.            *)
(*   frames : the activations of makeMove suspended in their candidate      *)
(*            loop, outermost first; each holds sq, moves, i and, as        *)
(*            history, the visitedSqs/stackSq it was entered with.          *)
(*   pc     : "idle" before backtrack(), "call" when makeMove(arg) is about *)
(*            to run, "ret" when a makeMove has just returned, "done" when  *)
(*            backtrack() has returned.                                     *)
(*   lastRet, retVisited, retStack : history of the makeMove that has just  *)
(*            returned: how it returned and the state it was entered with.  *)
(***************************************************************************)
VARIABLES visitedSqs, stackSq, fullTour, totalMoves, startingSq,
          frames, pc, arg, lastRet, retVisited, retStack

tourVars == <<visitedSqs, stackSq, fullTour, totalMoves, startingSq,
              frames, pc, arg, lastRet, retVisited, retStack>>


\* Mutant of TourInit: visitedSqs starts as 0xAA55AA55AA55AA55 instead of 0, the
\* squares of one colour are marked before the search begins.
TourInitColourVisited ==
    /\ visitedSqs = {q \in Bits : ((q \div 8) + (q % 8)) % 2 = 1}
    /\ stackSq = <<>>
    /\ fullTour = FALSE
    /\ totalMoves = 0
    /\ startingSq = noSq
    /\ frames = <<>>
    /\ pc = "idle"
    /\ arg = noSq
    /\ lastRet = "none"
    /\ retVisited = {}
    /\ retStack = <<>>

TourInit ==
    /\ visitedSqs = {}
    /\ stackSq = <<>>
    /\ fullTour = FALSE
    /\ totalMoves = 0
    /\ startingSq = noSq
    /\ frames = <<>>
    /\ pc = "idle"
    /\ arg = noSq
    /\ lastRet = "none"
    /\ retVisited = {}
    /\ retStack = <<>>

setBit(b, sq) == b \cup {sq}

popBit(b, sq) == b \ {sq}

pop_back(s) == SubSeq(s, 1, Len(s) - 1)

\* Backtrack::backtrack(sq): records the start and calls makeMove(sq).
backtrack(sq) ==
    /\ pc = "idle"
    /\ startingSq' = sq
    /\ arg' = sq
    /\ pc' = "call"
    /\ UNCHANGED <<visitedSqs, stackSq, fullTour, totalMoves, frames,
                   lastRet, retVisited, retStack>>

\* makeMove(arg), first lines: count, mark, push; the board is full (or fullTour
\* already set): set fullTour and return.
MakeMoveFull ==
    /\ pc = "call"
    /\ (setBit(visitedSqs, arg) = FullBB \/ fullTour)
    /\ totalMoves' = totalMoves + 1
    /\ visitedSqs' = setBit(visitedSqs, arg)
    /\ stackSq' = Append(stackSq, arg)
    /\ fullTour' = TRUE
    /\ pc' = "ret"
    /\ lastRet' = "full"
    /\ retVisited' = visitedSqs
    /\ retStack' = stackSq
    /\ UNCHANGED <<startingSq, frames, arg>>

\* Mutant of MakeMoveDeadEnd: returns without clearing the visited bit.
MakeMoveDeadEndNoUndo ==
    /\ pc = "call"
    /\ ~(setBit(visitedSqs, arg) = FullBB \/ fullTour)
    /\ genList(arg, setBit(visitedSqs, arg))[1][1] = noSq
    /\ totalMoves' = totalMoves + 1
    /\ visitedSqs' = setBit(visitedSqs, arg)
    /\ stackSq' = pop_back(Append(stackSq, arg))
    /\ pc' = "ret"
    /\ lastRet' = "deadend"
    /\ retVisited' = visitedSqs
    /\ retStack' = stackSq
    /\ UNCHANGED <<fullTour, startingSq, frames, arg>>

\* makeMove(arg): the move list is empty (first slot is noSq): undo and return.
MakeMoveDeadEnd ==
    /\ pc = "call"
    /\ ~(setBit(visitedSqs, arg) = FullBB \/ fullTour)
    /\ genList(arg, setBit(visitedSqs, arg))[1][1] = noSq
    /\ totalMoves' = totalMoves + 1
    /\ visitedSqs' = popBit(setBit(visitedSqs, arg), arg)
    /\ stackSq' = pop_back(Append(stackSq, arg))
    /\ pc' = "ret"
    /\ lastRet' = "deadend"
    /\ retVisited' = visitedSqs
    /\ retStack' = stackSq
    /\ UNCHANGED <<fullTour, startingSq, frames, arg>>

\* Mutant of MakeMoveExpand: genList runs before setBit(visitedSqs, sq), so the
\* current square is still unvisited when the onward degrees are counted.
MakeMoveExpandEarlyList ==
    /\ pc = "call"
    /\ ~(setBit(visitedSqs, arg) = FullBB \/ fullTour)
    /\ LET moves == genList(arg, visitedSqs)
       IN  /\ moves[1][1] # noSq
           /\ frames' = Append(frames, [sq |-> arg, moves |-> moves, i |-> 0,
                                        v0 |-> visitedSqs, s0 |-> stackSq])
           /\ arg' = moves[1][1]
    /\ totalMoves' = totalMoves + 1
    /\ visitedSqs' = setBit(visitedSqs, arg)
    /\ stackSq' = Append(stackSq, arg)
    /\ pc' = "call"
    /\ UNCHANGED <<fullTour, startingSq, lastRet, retVisited, retStack>>

\* makeMove(arg): there are candidates: enter the loop with i = 0 and call
\* makeMove(moves[0].first).
MakeMoveExpand ==
    /\ pc = "call"
    /\ ~(setBit(visitedSqs, arg) = FullBB \/ fullTour)
    /\ LET moves == genList(arg, setBit(visitedSqs, arg))
       IN  /\ moves[1][1] # noSq
           /\ frames' = Append(frames, [sq |-> arg, moves |-> moves, i |-> 0,
                                        v0 |-> visitedSqs, s0 |-> stackSq])
           /\ arg' = moves[1][1]
    /\ totalMoves' = totalMoves + 1
    /\ visitedSqs' = setBit(visitedSqs, arg)
    /\ stackSq' = Append(stackSq, arg)
    /\ pc' = "call"
    /\ UNCHANGED <<fullTour, startingSq, lastRet, retVisited, retStack>>

Top == frames[Len(frames)]

\* Mutant of ReturnSolved: undoes the move (popBit, pop_back) although the
\* tour is complete.
ReturnSolvedUndo ==
    /\ pc = "ret"
    /\ frames # <<>>
    /\ fullTour
    /\ visitedSqs' = popBit(visitedSqs, Top.sq)
    /\ stackSq' = pop_back(stackSq)
    /\ frames' = pop_back(frames)
    /\ lastRet' = "solved"
    /\ retVisited' = Top.v0
    /\ retStack' = Top.s0
    /\ UNCHANGED <<fullTour, totalMoves, startingSq, pc, arg>>

\* After the recursive call returned with fullTour set: return without undoing.
ReturnSolved ==
    /\ pc = "ret"
    /\ frames # <<>>
    /\ fullTour
    /\ frames' = pop_back(frames)
    /\ lastRet' = "solved"
    /\ retVisited' = Top.v0
    /\ retStack' = Top.s0
    /\ UNCHANGED <<visitedSqs, stackSq, fullTour, totalMoves, startingSq, pc, arg>>

\* The slot the loop condition reads after ++i. Slot 8 is past the end of the
\* array: the read is undefined and may yield any value.
SlotValues(f) ==
    IF f.i + 1 < 8 THEN {f.moves[f.i + 2][1]} ELSE 0..noSq

\* After the recursive call returned without a tour: ++i, and the next slot
\* holds a candidate: call makeMove on it.
NextCandidate ==
    /\ pc = "ret"
    /\ frames # <<>>
    /\ ~fullTour
    /\ \E first \in SlotValues(Top) :
          /\ first # noSq
          /\ arg' = first
    /\ frames' = [frames EXCEPT ![Len(frames)].i = @ + 1]
    /\ pc' = "call"
    /\ UNCHANGED <<visitedSqs, stackSq, fullTour, totalMoves, startingSq,
                   lastRet, retVisited, retStack>>

\* Mutant of Exhausted: leaves the loop and returns without stackSq.pop_back().
ExhaustedNoPop ==
    /\ pc = "ret"
    /\ frames # <<>>
    /\ ~fullTour
    /\ \E first \in SlotValues(Top) : first = noSq
    /\ visitedSqs' = popBit(visitedSqs, Top.sq)
    /\ stackSq' = stackSq
    /\ frames' = pop_back(frames)
    /\ lastRet' = "exhausted"
    /\ retVisited' = Top.v0
    /\ retStack' = Top.s0
    /\ UNCHANGED <<fullTour, totalMoves, startingSq, pc, arg>>

\* After the recursive call returned without a tour: ++i, and the next slot is
\* the sentinel: leave the loop, undo and return.
Exhausted ==
    /\ pc = "ret"
    /\ frames # <<>>
    /\ ~fullTour
    /\ \E first \in SlotValues(Top) : first = noSq
    /\ visitedSqs' = popBit(visitedSqs, Top.sq)
    /\ stackSq' = pop_back(stackSq)
    /\ frames' = pop_back(frames)
    /\ lastRet' = "exhausted"
    /\ retVisited' = Top.v0
    /\ retStack' = Top.s0
    /\ UNCHANGED <<fullTour, totalMoves, startingSq, pc, arg>>

\* The outermost makeMove has returned: backtrack() returns.
BacktrackReturn ==
    /\ pc = "ret"
    /\ frames = <<>>
    /\ pc' = "done"
    /\ UNCHANGED <<visitedSqs, stackSq, fullTour, totalMoves, startingSq,
                   frames, arg, lastRet, retVisited, retStack>>

(***************************************************************************)
(* River crossing: constants, State and Move.                               *)
(***************************************************************************)
BOAT_CAPACITY == 2

TOTAL_CANNIBALS == 3

TOTAL_EXPLORERS == 3

LEFT == 0

RIGHT == 1

Min(a, b) == IF a < b THEN a ELSE b

\* struct Move: cannibalCount_, explorerCount_.
Move(cannibals, explorers) == [cannibalCount_ |-> cannibals, explorerCount_ |-> explorers]

\* A default-constructed State.
InitialState ==
    [leftCannibals_ |-> TOTAL_CANNIBALS, leftExplorers_ |-> TOTAL_EXPLORERS,
     rightCannibals_ |-> 0, rightExplorers_ |-> 0, boatSide_ |-> LEFT]

\* Mutant of isSuccess: the goal is never recognised, the search goes on from it.
isSuccessNever(st) == FALSE

isSuccess(st) ==
    st.rightCannibals_ = TOTAL_CANNIBALS /\ st.rightExplorers_ = TOTAL_EXPLORERS

\* Mutant of isValid: only the left shore is tested.
isValidLeftOnly(st) ==
    ~ (st.leftCannibals_ > st.leftExplorers_ /\ st.leftExplorers_ # 0)

isValid(st) ==
    ~ \/ (st.leftCannibals_ > st.leftExplorers_ /\ st.leftExplorers_ # 0)
      \/ (st.rightCannibals_ > st.rightExplorers_ /\ st.rightExplorers_ # 0)

\* Mutant of XorOne: boatSide_ |= 1, the boat never comes back to LEFT.
XorOneSet(b) == IF b % 2 = 0 THEN b + 1 ELSE b

\* boatSide_ ^= 1 on an int: flips bit 0 and keeps the higher bits.
XorOne(b) == IF b % 2 = 0 THEN b + 1 ELSE b - 1

\* Mutant of applyMove: the passengers leave the boat's shore and are not added
\* to the other one.
applyMoveNoArrival(st, move) ==
    IF st.boatSide_ = RIGHT
    THEN [leftExplorers_ |-> st.leftExplorers_,
          leftCannibals_ |-> st.leftCannibals_,
          rightExplorers_ |-> st.rightExplorers_ - move.explorerCount_,
          rightCannibals_ |-> st.rightCannibals_ - move.cannibalCount_,
          boatSide_ |-> XorOne(st.boatSide_)]
    ELSE [leftExplorers_ |-> st.leftExplorers_ - move.explorerCount_,
          leftCannibals_ |-> st.leftCannibals_ - move.cannibalCount_,
          rightExplorers_ |-> st.rightExplorers_,
          rightCannibals_ |-> st.rightCannibals_,
          boatSide_ |-> XorOne(st.boatSide_)]

applyMove(st, move) ==
    IF st.boatSide_ = RIGHT
    THEN [leftExplorers_ |-> st.leftExplorers_ + move.explorerCount_,
          leftCannibals_ |-> st.leftCannibals_ + move.cannibalCount_,
          rightExplorers_ |-> st.rightExplorers_ - move.explorerCount_,
          rightCannibals_ |-> st.rightCannibals_ - move.cannibalCount_,
          boatSide_ |-> XorOne(st.boatSide_)]
    ELSE [leftExplorers_ |-> st.leftExplorers_ - move.explorerCount_,
          leftCannibals_ |-> st.leftCannibals_ - move.cannibalCount_,
          rightExplorers_ |-> st.rightExplorers_ + move.explorerCount_,
          rightCannibals_ |-> st.rightCannibals_ + move.cannibalCount_,
          boatSide_ |-> XorOne(st.boatSide_)]

\* Mutant of undoMove: the state is left as it is.
undoMoveNothing(st, move) == st

undoMove(st, move) == applyMove(st, move)

\* Mutant of ExplorerLoop: the bound of e is min(BOAT_CAPACITY, explorers), the
\* seats the cannibals take are not subtracted.
RECURSIVE ExplorerLoopFull(_, _, _)
ExplorerLoopFull(c, e, explorers) ==
    IF e <= Min(BOAT_CAPACITY, explorers)
    THEN (IF c + e > 0 THEN <<Move(c, e)>> ELSE <<>>) \o ExplorerLoopFull(c, e + 1, explorers)
    ELSE <<>>

\* The inner for loop of createMoveList for one c: e = from .. min(cap - c, explorers).
RECURSIVE ExplorerLoop(_, _, _)
ExplorerLoop(c, e, explorers) ==
    IF e <= Min(BOAT_CAPACITY - c, explorers)
    THEN (IF c + e > 0 THEN <<Move(c, e)>> ELSE <<>>) \o ExplorerLoop(c, e + 1, explorers)
    ELSE <<>>

\* The outer for loop of createMoveList: c = from .. min(cap, cannibals).
RECURSIVE CannibalLoop(_, _, _)
CannibalLoop(c, cannibals, explorers) ==
    IF c <= Min(BOAT_CAPACITY, cannibals)
    THEN ExplorerLoop(c, 0, explorers) \o CannibalLoop(c + 1, cannibals, explorers)
    ELSE <<>>

\* Mutant of createMoveList: the counts are taken from the shore opposite the boat.
createMoveListOtherShore(st) ==
    LET cannibals == IF st.boatSide_ = LEFT THEN st.rightCannibals_ ELSE st.leftCannibals_
        explorers == IF st.boatSide_ = LEFT THEN st.rightExplorers_ ELSE st.leftExplorers_
    IN  CannibalLoop(0, cannibals, explorers)

createMoveList(st) ==
    LET cannibals == IF st.boatSide_ = LEFT THEN st.leftCannibals_ ELSE st.rightCannibals_
        explorers == IF st.boatSide_ = LEFT THEN st.leftExplorers_ ELSE st.rightExplorers_
    IN  CannibalLoop(0, cannibals, explorers)

(***************************************************************************)
(* State of a Solution object and of the recursion of Solution::backtrack.  *)
(*   rframes : the activations of backtrack() inside their for loop,        *)
(*             outermost first: the move list, the 1-based position k and,  *)
(*             as history, the currentState_/previousMoves it was entered   *)
(*             with.                                                        *)
(*   rpc     : "idle" before main calls backtrack(), "call" when a          *)
(*             backtrack() is about to run, "loop" at the loop head of the  *)
(*             innermost activation, "ret" when a backtrack() has just      *)
(*             returned, "done" when the top-level call has returned.       *)
(*   rlastRet, retState, retMoves : history of the backtrack() that has     *)
(*             just returned: how it went and what it was entered with.     *)
(*   passed  : history, the values of currentState_ of the invocations that *)
(*             got past the base case, in order.                            *)
(***************************************************************************)
VARIABLES currentState_, previousMoves, visitedStates, solutionMoves, rframes, rpc,
          rlastRet, retState, retMoves, passed

riverVars == <<currentState_, previousMoves, visitedStates, solutionMoves, rframes, rpc,
               rlastRet, retState, retMoves, passed>>

RiverInit ==
    /\ currentState_ = InitialState
    /\ previousMoves = <<>>
    /\ visitedStates = {}
    /\ solutionMoves = <<>>
    /\ rframes = <<>>
    /\ rpc = "idle"
    /\ rlastRet = "none"
    /\ retState = InitialState
    /\ retMoves = <<>>
    /\ passed = <<>>

\* main: solver.backtrack().
MainCall ==
    /\ rpc = "idle"
    /\ rpc' = "call"
    /\ UNCHANGED <<currentState_, previousMoves, visitedStates, solutionMoves, rframes,
                   rlastRet, retState, retMoves, passed>>

\* Mutant of EmplaceInserts: the set does not recognise an equal element, every
\* insertion succeeds.
EmplaceInsertsAlways(st, visited) == TRUE

\* visitedStates.emplace(currentState_).second: operator< compares the five
\* fields lexicographically, so two states are equivalent iff all five are equal.
EmplaceInserts(st, visited) == st \notin visited

\* Mutant of Pruned: only invalid states are rejected, the result of emplace is
\* ignored.
PrunedInvalidOnly == ~isValid(currentState_)

\* The base case of backtrack(): invalid (nothing is inserted) or seen before.
Pruned == ~isValid(currentState_) \/ ~EmplaceInserts(currentState_, visitedStates)

\* Mutant of BacktrackPrune: the operands of || are swapped, so emplace runs
\* first and an invalid state is inserted before it is rejected.
BacktrackPruneInserts ==
    /\ rpc = "call"
    /\ Pruned
    /\ visitedStates' = visitedStates \cup {currentState_}
    /\ rpc' = "ret"
    /\ rlastRet' = "pruned"
    /\ retState' = currentState_
    /\ retMoves' = previousMoves
    /\ UNCHANGED <<currentState_, previousMoves, solutionMoves, rframes, passed>>

BacktrackPrune ==
    /\ rpc = "call"
    /\ Pruned
    /\ rpc' = "ret"
    /\ rlastRet' = "pruned"
    /\ retState' = currentState_
    /\ retMoves' = previousMoves
    /\ UNCHANGED <<currentState_, previousMoves, visitedStates, solutionMoves, rframes,
                   passed>>

\* Mutant of Improves: the solutionMoves.empty() alternative is missing.
ImprovesNoEmpty(prev, sol) == Len(prev) < Len(sol)

\* The test guarding solutionMoves = previousMoves.
Improves(prev, sol) == sol = <<>> \/ Len(prev) < Len(sol)

\* Mutant of BacktrackSuccess: the success test runs before the base case, so
\* the goal state is not inserted into visitedStates.
BacktrackSuccessNoInsert ==
    /\ rpc = "call"
    /\ ~Pruned
    /\ isSuccess(currentState_)
    /\ visitedStates' = visitedStates
    /\ solutionMoves' = IF Improves(previousMoves, solutionMoves)
                        THEN previousMoves ELSE solutionMoves
    /\ rpc' = "ret"
    /\ rlastRet' = "success"
    /\ retState' = currentState_
    /\ retMoves' = previousMoves
    /\ passed' = Append(passed, currentState_)
    /\ UNCHANGED <<currentState_, previousMoves, rframes>>

BacktrackSuccess ==
    /\ rpc = "call"
    /\ ~Pruned
    /\ isSuccess(currentState_)
    /\ visitedStates' = visitedStates \cup {currentState_}
    /\ solutionMoves' = IF Improves(previousMoves, solutionMoves)
                        THEN previousMoves ELSE solutionMoves
    /\ rpc' = "ret"
    /\ rlastRet' = "success"
    /\ retState' = currentState_
    /\ retMoves' = previousMoves
    /\ passed' = Append(passed, currentState_)
    /\ UNCHANGED <<currentState_, previousMoves, rframes>>

\* Not pruned, not a success: build the move list and enter the for loop.
BacktrackExpand ==
    /\ rpc = "call"
    /\ ~Pruned
    /\ ~isSuccess(currentState_)
    /\ visitedStates' = visitedStates \cup {currentState_}
    /\ rframes' = Append(rframes, [moves |-> createMoveList(currentState_), k |-> 1,
                                   c0 |-> currentState_, p0 |-> previousMoves])
    /\ rpc' = "loop"
    /\ passed' = Append(passed, currentState_)
    /\ UNCHANGED <<currentState_, previousMoves, solutionMoves,
                   rlastRet, retState, retMoves>>

RTop == rframes[Len(rframes)]

\* Loop body up to the recursive call: applyMove, push_back, backtrack().
LoopApply ==
    /\ rpc = "loop"
    /\ RTop.k <= Len(RTop.moves)
    /\ currentState_' = applyMove(currentState_, RTop.moves[RTop.k])
    /\ previousMoves' = Append(previousMoves, RTop.moves[RTop.k])
    /\ rpc' = "call"
    /\ UNCHANGED <<visitedStates, solutionMoves, rframes,
                   rlastRet, retState, retMoves, passed>>

\* Loop body after the recursive call: undoMove, pop_back, next move.
LoopUndo ==
    /\ rpc = "ret"
    /\ rframes # <<>>
    /\ currentState_' = undoMove(currentState_, RTop.moves[RTop.k])
    /\ previousMoves' = pop_back(previousMoves)
    /\ rframes' = [rframes EXCEPT ![Len(rframes)].k = @ + 1]
    /\ rpc' = "loop"
    /\ UNCHANGED <<visitedStates, solutionMoves, rlastRet, retState, retMoves, passed>>

\* The for loop is over: backtrack() returns.
LoopEnd ==
    /\ rpc = "loop"
    /\ RTop.k > Len(RTop.moves)
    /\ rframes' = pop_back(rframes)
    /\ rpc' = "ret"
    /\ rlastRet' = "expanded"
    /\ retState' = RTop.c0
    /\ retMoves' = RTop.p0
    /\ UNCHANGED <<currentState_, previousMoves, visitedStates, solutionMoves, passed>>

\* The top-level backtrack() has returned to main.
MainReturn ==
    /\ rpc = "ret"
    /\ rframes = <<>>
    /\ rpc' = "done"
    /\ UNCHANGED <<currentState_, previousMoves, visitedStates, solutionMoves, rframes,
                   rlastRet, retState, retMoves, passed>>

\* printOutput's simState: the states obtained by applying moves in order to a
\* fresh State; element 1 is the fresh State, element Len(moves) + 1 the final one.
RECURSIVE Trajectory(_, _)
Trajectory(st, moves) ==
    IF moves = <<>>
    THEN <<st>>
    ELSE <<st>> \o Trajectory(applyMove(st, Head(moves)), Tail(moves))

(***************************************************************************)
(* Harness for the pure functions: a State object that receives applyMove   *)
(* and undoMove directly, and genList called on a given visited board.      *)
(***************************************************************************)
MaxCount == 3

MaxMove == 2

MaxVisited == 1

VARIABLES tState, tOrig, tMove, tList, tpc, gVisited, gSq, gList, gAttacks, gpc

testVars == <<tState, tOrig, tMove, tList, tpc, gVisited, gSq, gList, gAttacks, gpc>>

vars == <<tourVars, riverVars, testVars>>

TestStates ==
    [leftCannibals_ : 0..MaxCount, leftExplorers_ : 0..MaxCount,
     rightCannibals_ : 0..MaxCount, rightExplorers_ : 0..MaxCount,
     boatSide_ : {LEFT, RIGHT}]

TestIdle ==
    /\ tState = InitialState
    /\ tOrig = InitialState
    /\ tMove = Move(0, 0)
    /\ tList = <<>>
    /\ tpc = "off"

GenIdle ==
    /\ gVisited = {}
    /\ gSq = noSq
    /\ gList = EmptyMoves
    /\ gAttacks = {}
    /\ gpc = "off"

\* state.applyMove(m) on the State under test.
TestApply(m) ==
    /\ tpc = "fresh"
    /\ tState' = applyMove(tState, m)
    /\ tMove' = m
    /\ tpc' = "applied"
    /\ UNCHANGED <<tOrig, tList, gVisited, gSq, gList, gAttacks, gpc>>

\* state.applyMove(m) a second time with the same move.
TestApplyAgain ==
    /\ tpc = "applied"
    /\ tState' = applyMove(tState, tMove)
    /\ tpc' = "reapplied"
    /\ UNCHANGED <<tOrig, tMove, tList, gVisited, gSq, gList, gAttacks, gpc>>

\* state.undoMove(m) after applyMove(m).
TestUndo ==
    /\ tpc = "applied"
    /\ tState' = undoMove(tState, tMove)
    /\ tpc' = "undone"
    /\ UNCHANGED <<tOrig, tMove, tList, gVisited, gSq, gList, gAttacks, gpc>>

\* state.createMoveList() on the State under test.
TestList ==
    /\ tpc = "fresh"
    /\ tList' = createMoveList(tState)
    /\ tpc' = "listed"
    /\ UNCHANGED <<tState, tOrig, tMove, gVisited, gSq, gList, gAttacks, gpc>>

\* Build the visited board: mark one more square.
GenVisit(t) ==
    /\ gpc = "build"
    /\ t \notin gVisited
    /\ Cardinality(gVisited) < MaxVisited
    /\ gVisited' = setBit(gVisited, t)
    /\ UNCHANGED <<gSq, gList, gAttacks, gpc, tState, tOrig, tMove, tList, tpc>>

\* Fix the visited board: either the squares marked or all the others.
GenFix(invert) ==
    /\ gpc = "build"
    /\ gVisited' = IF invert THEN Not(gVisited) ELSE gVisited
    /\ gpc' = "ready"
    /\ UNCHANGED <<gSq, gList, gAttacks, tState, tOrig, tMove, tList, tpc>>

\* moves = genList(sq) on that board; gAttacks is the attacks = genMoveBoard(sq)
\* its first statement computes.
GenCall(sq) ==
    /\ gpc = "ready"
    /\ gAttacks' = genMoveBoard(sq, gVisited)
    /\ gList' = genList(sq, gVisited)
    /\ gSq' = sq
    /\ gpc' = "called"
    /\ UNCHANGED <<gVisited, tState, tOrig, tMove, tList, tpc>>

(***************************************************************************)
(* Specifications.                                                          *)
(***************************************************************************)
\* The knight's tour program: a fresh Backtrack object, backtrack(sq) for any
\* start square the input loop of main accepts (a1..h8).
Init == TourInit /\ RiverInit /\ TestIdle /\ GenIdle

Next ==
    \/ (\E sq \in Bits : backtrack(sq)) /\ UNCHANGED <<riverVars, testVars>>
    \/ MakeMoveFull /\ UNCHANGED <<riverVars, testVars>>
    \/ MakeMoveDeadEnd /\ UNCHANGED <<riverVars, testVars>>
    \/ MakeMoveExpand /\ UNCHANGED <<riverVars, testVars>>
    \/ ReturnSolved /\ UNCHANGED <<riverVars, testVars>>
    \/ NextCandidate /\ UNCHANGED <<riverVars, testVars>>
    \/ Exhausted /\ UNCHANGED <<riverVars, testVars>>
    \/ BacktrackReturn /\ UNCHANGED <<riverVars, testVars>>

Spec == Init /\ [][Next]_vars

\* The river crossing program: main runs solver.backtrack().
NextRiver ==
    \/ MainCall /\ UNCHANGED <<tourVars, testVars>>
    \/ BacktrackPrune /\ UNCHANGED <<tourVars, testVars>>
    \/ BacktrackSuccess /\ UNCHANGED <<tourVars, testVars>>
    \/ BacktrackExpand /\ UNCHANGED <<tourVars, testVars>>
    \/ LoopApply /\ UNCHANGED <<tourVars, testVars>>
    \/ LoopUndo /\ UNCHANGED <<tourVars, testVars>>
    \/ LoopEnd /\ UNCHANGED <<tourVars, testVars>>
    \/ MainReturn /\ UNCHANGED <<tourVars, testVars>>

SpecRiver == Init /\ [][NextRiver]_vars

\* The river crossing program run to completion: main is a single sequential
\* thread, so a step that can be taken is eventually taken.
SpecRiverFair == Init /\ [][NextRiver]_vars /\ WF_vars(NextRiver)

\* applyMove, undoMove and createMoveList on every State with counts 0..MaxCount and every Move
\* with counts 0..MaxMove.
InitMove ==
    /\ TourInit /\ RiverInit /\ GenIdle
    /\ tState \in TestStates
    /\ tOrig = tState
    /\ tMove = Move(0, 0)
    /\ tList = <<>>
    /\ tpc = "fresh"

NextMove ==
    \/ (\E c \in 0..MaxMove, e \in 0..MaxMove : TestApply(Move(c, e)))
           /\ UNCHANGED <<tourVars, riverVars>>
    \/ TestApplyAgain /\ UNCHANGED <<tourVars, riverVars>>
    \/ TestUndo /\ UNCHANGED <<tourVars, riverVars>>
    \/ TestList /\ UNCHANGED <<tourVars, riverVars>>

SpecMove == InitMove /\ [][NextMove]_vars

\* genList on every square and every board with at most MaxVisited squares
\* visited or at most MaxVisited squares unvisited.
InitGen ==
    /\ TourInit /\ RiverInit /\ TestIdle
    /\ gVisited = {}
    /\ gSq = noSq
    /\ gList = EmptyMoves
    /\ gAttacks = {}
    /\ gpc = "build"

NextGen ==
    \/ (\E t \in Bits : GenVisit(t)) /\ UNCHANGED <<tourVars, riverVars>>
    \/ (\E invert \in BOOLEAN : GenFix(invert)) /\ UNCHANGED <<tourVars, riverVars>>
    \/ (\E sq \in Bits : GenCall(sq)) /\ UNCHANGED <<tourVars, riverVars>>

SpecGen == InitGen /\ [][NextGen]_vars

(***************************************************************************)
(* Properties.                                                              *)
(***************************************************************************)
AbsDiff(a, b) == IF a >= b THEN a - b ELSE b - a

\* A legal knight move on the 8x8 board: rank and file differ by (1,2) or (2,1).
KnightMove(a, b) ==
    LET dr == AbsDiff(a \div 8, b \div 8)
        dc == AbsDiff(a % 8, b % 8)
    IN  (dr = 1 /\ dc = 2) \/ (dr = 2 /\ dc = 1)

\* C1: when backtrack(s) has returned with fullTour set, stackSq has exactly 64
\* entries, starts with s, holds every square 0..63 exactly once, and every two
\* consecutive entries are a legal knight move apart.
C1_TourComplete ==
    (pc = "done" /\ fullTour) =>
        /\ Len(stackSq) = 64
        /\ stackSq[1] = startingSq
        /\ \A q \in Bits : Cardinality({k \in 1..Len(stackSq) : stackSq[k] = q}) = 1
        /\ \A k \in 1..(Len(stackSq) - 1) : KnightMove(stackSq[k], stackSq[k + 1])

\* A tour found after backtracking: start a4 needs more than 64 makeMove calls.
C1_Witness == pc = "done" /\ fullTour /\ startingSq = 24 /\ totalMoves > 64

\* The counts of a State are all non-negative.
NonNegative(st) ==
    /\ st.leftCannibals_ >= 0 /\ st.leftExplorers_ >= 0
    /\ st.rightCannibals_ >= 0 /\ st.rightExplorers_ >= 0

\* On both shores the cannibals do not outnumber the explorers, unless there
\* is no explorer on that shore.
ShoresSafe(st) ==
    /\ (st.leftCannibals_ <= st.leftExplorers_ \/ st.leftExplorers_ = 0)
    /\ (st.rightCannibals_ <= st.rightExplorers_ \/ st.rightExplorers_ = 0)

Last(seq) == seq[Len(seq)]

\* C2: with 3 cannibals, 3 explorers and a boat for 2, when the top-level
\* backtrack() has returned solutionMoves holds exactly 11 moves, and applying
\* them in order to a fresh State ends with 3 cannibals and 3 explorers on the
\* right shore.
C2_ElevenMoves ==
    (rpc = "done") =>
        /\ Len(solutionMoves) = 11
        /\ Last(Trajectory(InitialState, solutionMoves)).rightCannibals_ = 3
        /\ Last(Trajectory(InitialState, solutionMoves)).rightExplorers_ = 3
        /\ Last(Trajectory(InitialState, solutionMoves)).leftCannibals_ = 0
        /\ Last(Trajectory(InitialState, solutionMoves)).leftExplorers_ = 0

C2_Witness == rpc = "done" /\ solutionMoves # <<>> /\ Cardinality(visitedStates) > 1

\* Breadth-first reference over <<cannibals left, explorers left, boat side>>,
\* written from the rules of the puzzle and not from the search.
RefSafe(s) ==
    /\ (s[1] <= s[2] \/ s[2] = 0)
    /\ (TOTAL_CANNIBALS - s[1] <= TOTAL_EXPLORERS - s[2] \/ TOTAL_EXPLORERS - s[2] = 0)

RefLoads == {l \in (0..BOAT_CAPACITY) \X (0..BOAT_CAPACITY) :
                l[1] + l[2] >= 1 /\ l[1] + l[2] <= BOAT_CAPACITY}

RefSucc(s) ==
    IF s[3] = LEFT
    THEN {<<s[1] - l[1], s[2] - l[2], RIGHT>> : l \in {x \in RefLoads : x[1] <= s[1] /\ x[2] <= s[2]}}
    ELSE {<<s[1] + l[1], s[2] + l[2], LEFT>> :
             l \in {x \in RefLoads : x[1] <= TOTAL_CANNIBALS - s[1] /\ x[2] <= TOTAL_EXPLORERS - s[2]}}

RefGoal(s) == s[1] = 0 /\ s[2] = 0

RECURSIVE RefBfs(_, _, _)
RefBfs(frontier, seen, d) ==
    IF \E s \in frontier : RefGoal(s) THEN d
    ELSE IF frontier = {} THEN -1
    ELSE LET nxt == {t \in UNION {RefSucc(s) : s \in frontier} : RefSafe(t) /\ t \notin seen}
         IN  RefBfs(nxt, seen \cup nxt, d + 1)

\* The length of a shortest crossing, or -1 when there is none.
RefMinLength ==
    LET s0 == <<TOTAL_CANNIBALS, TOTAL_EXPLORERS, LEFT>>
    IN  IF RefSafe(s0) THEN RefBfs({s0}, {s0}, 0) ELSE -1

\* moves is a crossing: every move carries 1..BOAT_CAPACITY people that are on
\* the boat's shore, every state passed is safe, and the last state is the goal.
IsCrossing(moves) ==
    LET traj == Trajectory(InitialState, moves)
    IN  /\ \A k \in 1..Len(moves) :
              /\ moves[k].cannibalCount_ >= 0 /\ moves[k].explorerCount_ >= 0
              /\ moves[k].cannibalCount_ + moves[k].explorerCount_ >= 1
              /\ moves[k].cannibalCount_ + moves[k].explorerCount_ <= BOAT_CAPACITY
        /\ \A k \in 1..Len(traj) : NonNegative(traj[k]) /\ ShoresSafe(traj[k])
        /\ Last(traj).rightCannibals_ = TOTAL_CANNIBALS
        /\ Last(traj).rightExplorers_ = TOTAL_EXPLORERS

\* C3: when backtrack() has finished, solutionMoves is a crossing of minimum
\* length: it is non-empty whenever a crossing exists, it is a crossing, and no
\* crossing is shorter (the breadth-first reference gives the minimum).
C3_Optimal ==
    (rpc = "done") =>
        IF RefMinLength > 0
        THEN /\ solutionMoves # <<>>
             /\ IsCrossing(solutionMoves)
             /\ Len(solutionMoves) <= RefMinLength
        ELSE solutionMoves = <<>>

C3_Witness == rpc = "done" /\ RefMinLength > 0 /\ Len(solutionMoves) = RefMinLength

\* C4: every state on the trajectory of solutionMoves from the initial state
\* (initial, intermediate and final) has, on each shore, cannibals <= explorers
\* or no explorers.
C4_TrajectorySafe ==
    (rpc = "done") =>
        \A k \in 1..(Len(solutionMoves) + 1) :
            ShoresSafe(Trajectory(InitialState, solutionMoves)[k])

\* The solution passes through a state where a shore has cannibals and no
\* explorers, and through one where both shores hold explorers.
C4_Witness ==
    /\ rpc = "done"
    /\ \E k \in 1..(Len(solutionMoves) + 1) :
          LET st == Trajectory(InitialState, solutionMoves)[k]
          IN  st.rightCannibals_ > 0 /\ st.rightExplorers_ = 0
    /\ \E k \in 1..(Len(solutionMoves) + 1) :
          LET st == Trajectory(InitialState, solutionMoves)[k]
          IN  st.rightExplorers_ > 0 /\ st.leftExplorers_ > 0

\* C5: the search started at a1 (square 0) terminates with fullTour set and a
\* path of 64 squares: it makes at most 64 makeMove calls (each returns once,
\* so the run is finite), no call returns without a tour, and when backtrack()
\* has returned fullTour holds and stackSq has 64 entries.
C5_TourFromA1 ==
    (startingSq = 0) =>
        /\ totalMoves <= 64
        /\ Len(frames) <= 64
        /\ lastRet \in {"none", "full", "solved"}
        /\ (pc = "done" => fullTour /\ Len(stackSq) = 64)

C5_Witness == startingSq = 0 /\ pc = "done" /\ fullTour /\ Len(stackSq) = 64

\* C6: applyMove(m) followed by applyMove(m) again, or by undoMove(m), gives
\* back the original State in all five fields.
C6_SelfInverse ==
    (tpc \in {"reapplied", "undone"}) =>
        /\ tState.leftCannibals_ = tOrig.leftCannibals_
        /\ tState.leftExplorers_ = tOrig.leftExplorers_
        /\ tState.rightCannibals_ = tOrig.rightCannibals_
        /\ tState.rightExplorers_ = tOrig.rightExplorers_
        /\ tState.boatSide_ = tOrig.boatSide_

C6_Witness ==
    /\ tpc = "reapplied"
    /\ tOrig.boatSide_ = RIGHT
    /\ tMove.cannibalCount_ > 0 /\ tMove.explorerCount_ > 0
    /\ tOrig.rightCannibals_ = 0

\* The slots of a move list that hold a candidate.
Candidates(moves) == {k \in 1..8 : moves[k][1] # noSq}

\* The onward degree of d on a board: its unvisited knight-neighbours.
KnightNeighbours == [d \in Bits |-> {t \in Bits : KnightMove(d, t)}]

OnwardDegree(d, visited) == Cardinality(KnightNeighbours[d] \ visited)

\* C7: the candidates genList(sq) returns are in non-decreasing order of onward
\* degree, and candidates of equal onward degree are in ascending square order.
\* (That the list depends only on sq and the visited set is built into genList
\* being an operator of these two arguments.)
C7_MoveOrdering ==
    (gpc = "called") =>
        LET deg == [k \in Candidates(gList) |-> OnwardDegree(gList[k][1], gVisited)]
        IN  \A j \in Candidates(gList) : \A k \in Candidates(gList) :
                j < k =>
                    /\ deg[j] <= deg[k]
                    /\ (deg[j] = deg[k] => gList[j][1] < gList[k][1])

\* A list with a tie, and with a candidate of smaller degree placed before a
\* candidate of smaller square index.
C7_Witness ==
    /\ gpc = "called"
    /\ \E j \in Candidates(gList) : \E k \in Candidates(gList) :
          /\ j < k
          /\ OnwardDegree(gList[j][1], gVisited) = OnwardDegree(gList[k][1], gVisited)
    /\ \E j \in Candidates(gList) : \E k \in Candidates(gList) :
          /\ j < k
          /\ gList[j][1] > gList[k][1]
          /\ OnwardDegree(gList[j][1], gVisited) < OnwardDegree(gList[k][1], gVisited)

\* makeMove(arg) is entered on a board that arg does not fill and on which
\* every knight-neighbour of arg is visited.
DeadEndCase ==
    /\ pc = "call"
    /\ ~fullTour
    /\ setBit(visitedSqs, arg) # FullBB
    /\ arg \in Bits
    /\ KnightNeighbours[arg] \subseteq visitedSqs

\* The candidate the caller's loop finds after ++i, noSq when there is none.
NextSlot(f) == IF f.i + 1 < 8 THEN f.moves[f.i + 2][1] ELSE noSq

\* C8: in the dead-end case genList's first slot is noSq, and makeMove clears
\* the visited bit of sq, pops sq, leaves fullTour false and returns to its
\* caller; the caller then goes on to its next candidate (or, having none left,
\* undoes its own move): the search does not end there.
C8_DeadEnd ==
    [][ /\ DeadEndCase =>
            /\ genList(arg, setBit(visitedSqs, arg))[1][1] = noSq
            /\ arg \notin visitedSqs'
            /\ stackSq' = stackSq
            /\ ~fullTour'
            /\ pc' = "ret"
            /\ lastRet' = "deadend"
            /\ frames' = frames
        /\ (pc = "ret" /\ lastRet = "deadend" /\ frames # <<>>) =>
            /\ ~fullTour'
            /\ pc' # "done"
            /\ IF NextSlot(Top) # noSq
               THEN /\ pc' = "call"
                    /\ arg' = NextSlot(Top)
                    /\ frames' = [frames EXCEPT ![Len(frames)].i = @ + 1]
               ELSE /\ pc' = "ret"
                    /\ lastRet' = "exhausted"
                    /\ Len(frames') = Len(frames) - 1
      ]_vars

\* A dead end was met and its caller has called makeMove on its next candidate.
C8_Witness ==
    /\ pc = "call"
    /\ lastRet = "deadend"
    /\ frames # <<>>
    /\ Top.i > 0
    /\ arg = Top.moves[Top.i + 1][1]

\* C9: a makeMove that returns with fullTour false leaves visitedSqs and
\* stackSq as they were when it was entered; so a backtrack(start) that
\* returns without a tour leaves stackSq empty and visitedSqs 0.
C9_Undo ==
    /\ (pc = "ret" /\ ~fullTour) => (visitedSqs = retVisited /\ stackSq = retStack)
    /\ (pc = "done" /\ ~fullTour) => (visitedSqs = {} /\ stackSq = <<>>)

\* A makeMove that tried all its candidates in vain has returned, deep in the search.
C9_Witness ==
    /\ pc = "ret"
    /\ ~fullTour
    /\ lastRet = "exhausted"
    /\ Len(retStack) > 40

\* C10: at every entry to and return from makeMove the length of stackSq is the
\* number of visited squares, the squares on stackSq are exactly the visited
\* ones, there are at most 64 of them, and makeMove is entered on an unvisited
\* square only.
C10_PathVisited ==
    (pc \in {"call", "ret"}) =>
        /\ Len(stackSq) = bitCount(visitedSqs)
        /\ {stackSq[k] : k \in 1..Len(stackSq)} = visitedSqs
        /\ Len(stackSq) <= 64
        /\ (pc = "call" => arg \in Bits /\ arg \notin visitedSqs)

\* makeMove is entered again after the search has backtracked.
C10_Witness ==
    /\ pc = "call"
    /\ lastRet = "exhausted"
    /\ Len(stackSq) > 50

\* C11: fullTour is a latch. It turns true only in a step that leaves all 64
\* bits of visitedSqs set; once it is true it stays true, no makeMove call is
\* made any more, and visitedSqs, stackSq and totalMoves are not modified while
\* the recursion unwinds.
C11_SolvedLatch ==
    [][ /\ (~fullTour /\ fullTour') => visitedSqs' = FullBB
        /\ fullTour => /\ fullTour'
                       /\ pc' # "call"
                       /\ UNCHANGED <<visitedSqs, stackSq, totalMoves>> ]_vars

\* The recursion has unwound completely after a tour that needed backtracking.
C11_Witness ==
    /\ pc = "ret" /\ frames = <<>> /\ lastRet = "solved"
    /\ fullTour /\ startingSq = 49 /\ totalMoves > 64

\* C12: genMoveBoard(sq) on a board with visited set V is exactly the set of
\* squares of the board a (1,2) or (2,1) step away from sq that are not in V;
\* nothing wraps across the A/B or G/H files or off the first or last rank.
C12_KnightTargets ==
    (gpc = "called") =>
        gAttacks = {t \in Bits : KnightMove(gSq, t) /\ t \notin gVisited}

\* genMoveBoard called on the corner h8 (file H, last rank) with one of its two
\* neighbours visited.
C12_Witness == gpc = "called" /\ gSq = 63 /\ gVisited = {46} /\ gAttacks = {53}

\* C13: in the list genList(sq) returns to makeMove, the degree stored with a
\* candidate d is the number of knight-neighbours of d that are unvisited on
\* the board of the call, on which sq is already marked and d is not: sq is
\* never counted.
C13_OnwardDegree ==
    (frames # <<>>) =>
        \A k \in Candidates(Top.moves) :
            LET d == Top.moves[k][1]
            IN  /\ d \notin setBit(Top.v0, Top.sq)
                /\ Top.sq \in KnightNeighbours[d]
                /\ Top.moves[k][2] =
                       Cardinality({t \in KnightNeighbours[d] : t \notin Top.v0 /\ t # Top.sq})

\* A makeMove in its loop, below the first level, holding a candidate with
\* onward moves: its stored degree is one less than the count that includes sq.
C13_Witness ==
    /\ Len(frames) >= 2
    /\ \E k \in Candidates(Top.moves) :
          /\ Top.moves[k][2] >= 1
          /\ Top.moves[k][2] + 1 = OnwardDegree(Top.moves[k][1], Top.v0)

\* The State whose left shore and boat side are given by s.
RefState(s) ==
    [leftCannibals_ |-> s[1], leftExplorers_ |-> s[2],
     rightCannibals_ |-> TOTAL_CANNIBALS - s[1], rightExplorers_ |-> TOTAL_EXPLORERS - s[2],
     boatSide_ |-> s[3]]

\* The safe positions reachable by legal loads along paths on which every
\* earlier position is safe and is not the goal.
RECURSIVE RefExplore(_, _)
RefExplore(frontier, seen) ==
    LET nxt == {t \in UNION {RefSucc(s) : s \in {x \in frontier : ~RefGoal(x)}} :
                   RefSafe(t) /\ t \notin seen}
    IN  IF nxt = {} THEN seen ELSE RefExplore(nxt, seen \cup nxt)

RefReachable ==
    LET s0 == <<TOTAL_CANNIBALS, TOTAL_EXPLORERS, LEFT>>
    IN  IF RefSafe(s0) THEN RefExplore({s0}, {s0}) ELSE {}

\* C14: no invalid state is ever inserted into visitedStates, and when the
\* top-level backtrack() has returned visitedStates is exactly the set of valid
\* states reachable from the initial state by legal moves along paths whose
\* earlier states are all valid and not success states.
C14_Exhaustive ==
    /\ \A st \in visitedStates : ShoresSafe(st)
    /\ (rpc = "done") => visitedStates = {RefState(s) : s \in RefReachable}

\* The search is over, a stored state has a move that leads to an invalid
\* state, and the goal is among the states it stored.
C14_Witness ==
    /\ rpc = "done"
    /\ Cardinality(visitedStates) = 15
    /\ \E st \in visitedStates : isSuccess(st)
    /\ \E st \in visitedStates : \E k \in 1..Len(createMoveList(st)) :
          ~ShoresSafe(applyMove(st, createMoveList(st)[k]))

\* C15: every backtrack() returns with currentState_ and previousMoves as they
\* were when it was entered, whether it was pruned, stored a solution or
\* expanded; at every entry currentState_ is the initial state with
\* previousMoves applied in order; the top-level call returns with the initial
\* state and no move.
C15_Restore ==
    /\ (rpc = "ret") => (currentState_ = retState /\ previousMoves = retMoves)
    /\ (rpc = "call") => currentState_ = Last(Trajectory(InitialState, previousMoves))
    /\ (rpc = "done") => (currentState_ = InitialState /\ previousMoves = <<>>)

\* An invocation that expanded moves has returned to a caller three levels down.
C15_Witness ==
    /\ rpc = "ret" /\ rlastRet = "expanded"
    /\ Len(rframes) = 3 /\ Len(previousMoves) = 3
    /\ currentState_ # InitialState

\* Every State whose counts add up to the totals: 4 x 4 x 2 values.
ConservedStates ==
    {RefState(<<c, e, b>>) : c \in 0..TOTAL_CANNIBALS, e \in 0..TOTAL_EXPLORERS, b \in {LEFT, RIGHT}}

\* C16: the top-level backtrack() terminates; every invocation that gets past
\* the base case makes visitedStates strictly larger and no step makes it
\* smaller, so the invocations that got past the base case are never more than
\* the states stored, which are never more than the distinct states there are.
C16_Termination ==
    /\ <>(rpc = "done")
    /\ [][ /\ visitedStates \subseteq visitedStates'
           /\ (rpc = "call" /\ ~Pruned) =>
                  (visitedStates' # visitedStates /\ Len(passed') = Len(passed) + 1)
           /\ Len(passed') > Len(passed) => (rpc = "call" /\ ~Pruned) ]_vars
    /\ [](/\ Len(passed) <= Cardinality(visitedStates)
          /\ visitedStates \subseteq ConservedStates)

\* The search has ended after fifteen invocations got past the base case.
C16_Witness == rpc = "done" /\ Len(passed) = 15 /\ rlastRet = "expanded"

\* C17: for a State with non-negative counts, createMoveList() returns exactly
\* the moves (c, e) with 0 <= c <= min(BOAT_CAPACITY, cannibals on the boat's
\* shore), 0 <= e <= min(BOAT_CAPACITY - c, explorers on the boat's shore) and
\* c + e >= 1, each once, in ascending order of c and then of e; so every move
\* carries 1..BOAT_CAPACITY people and no more of a kind than the shore holds.
C17_MoveList ==
    (tpc = "listed") =>
        LET cannibals == IF tState.boatSide_ = LEFT THEN tState.leftCannibals_
                                                    ELSE tState.rightCannibals_
            explorers == IF tState.boatSide_ = LEFT THEN tState.leftExplorers_
                                                    ELSE tState.rightExplorers_
            expected == {m \in (0..Min(BOAT_CAPACITY, cannibals)) \X (0..BOAT_CAPACITY) :
                            m[2] <= Min(BOAT_CAPACITY - m[1], explorers) /\ m[1] + m[2] >= 1}
            pair(k) == <<tList[k].cannibalCount_, tList[k].explorerCount_>>
        IN  /\ {pair(k) : k \in 1..Len(tList)} = expected
            /\ Len(tList) = Cardinality(expected)
            /\ \A j \in 1..Len(tList) : \A k \in 1..Len(tList) :
                   j < k => \/ pair(j)[1] < pair(k)[1]
                            \/ (pair(j)[1] = pair(k)[1] /\ pair(j)[2] < pair(k)[2])
            /\ \A k \in 1..Len(tList) :
                   /\ pair(k)[1] + pair(k)[2] >= 1
                   /\ pair(k)[1] + pair(k)[2] <= BOAT_CAPACITY
                   /\ pair(k)[1] <= cannibals
                   /\ pair(k)[2] <= explorers

\* createMoveList on a State with the boat on the right, where one cannibal
\* and three explorers stand: the list is (0,1), (0,2), (1,0), (1,1).
C17_Witness ==
    /\ tpc = "listed"
    /\ tState.boatSide_ = RIGHT
    /\ tState.rightCannibals_ = 1 /\ tState.rightExplorers_ = 3
    /\ tList = <<Move(0, 1), Move(0, 2), Move(1, 0), Move(1, 1)>>

\* C18: in every state currentState_ takes during the search, pruned invalid
\* states included, the cannibals of both shores add up to TOTAL_CANNIBALS, the
\* explorers to TOTAL_EXPLORERS, the four counts lie in 0..3 and boatSide_ is
\* LEFT or RIGHT.
C18_Conservation ==
    /\ currentState_.leftCannibals_ + currentState_.rightCannibals_ = TOTAL_CANNIBALS
    /\ currentState_.leftExplorers_ + currentState_.rightExplorers_ = TOTAL_EXPLORERS
    /\ currentState_.leftCannibals_ \in 0..3
    /\ currentState_.rightCannibals_ \in 0..3
    /\ currentState_.leftExplorers_ \in 0..3
    /\ currentState_.rightExplorers_ \in 0..3
    /\ currentState_.boatSide_ \in {LEFT, RIGHT}

\* backtrack() has just rejected an invalid state reached with the boat on the
\* left, after a return trip.
C18_Witness ==
    /\ rpc = "ret" /\ rlastRet = "pruned"
    /\ ~ShoresSafe(currentState_)
    /\ currentState_.boatSide_ = LEFT
    /\ Len(previousMoves) >= 2

\* C19 as stated: at every entry of backtrack() the length of previousMoves is
\* at most TOTAL_CANNIBALS + TOTAL_EXPLORERS = 6.
C19_DepthAtMostEntities ==
    (rpc = "call") => Len(previousMoves) <= TOTAL_CANNIBALS + TOTAL_EXPLORERS

\* C19, amended: at every entry of backtrack() the length of previousMoves is at
\* most 11, the length of the crossing found, and at most the number of states
\* stored so far (every activation below the entry stored a different state).
C19_DepthBound ==
    (rpc = "call") =>
        /\ Len(previousMoves) <= 11
        /\ Len(previousMoves) = Len(rframes)
        /\ Len(previousMoves) <= Cardinality(visitedStates)

\* backtrack() is entered eleven moves deep.
C19_Witness == rpc = "call" /\ Len(previousMoves) = 11 /\ Len(rframes) = 11

\* C20: no State value gets past the base case of backtrack() twice, and an
\* invocation entered with a state that got past it before, a state of the
\* current path included, returns at once: no move list, no change of
\* solutionMoves, visitedStates, currentState_ or previousMoves.
C20_SingleExpansion ==
    /\ [](\A i \in 1..Len(passed) : \A j \in 1..Len(passed) :
              i # j => passed[i] # passed[j])
    /\ [][ (rpc = "call" /\ \E i \in 1..Len(passed) : passed[i] = currentState_) =>
               /\ rpc' = "ret"
               /\ UNCHANGED <<rframes, solutionMoves, visitedStates, passed,
                              currentState_, previousMoves>> ]_vars

\* backtrack() has just returned from a valid state that an activation of the
\* current path is expanding.
C20_Witness ==
    /\ rpc = "ret" /\ rlastRet = "pruned"
    /\ ShoresSafe(currentState_)
    /\ \E i \in 1..Len(rframes) : rframes[i].c0 = currentState_
    /\ \E i \in 1..Len(passed) : passed[i] = currentState_

\* The invocations so far that ran the success branch.
SuccessRuns == {i \in 1..Len(passed) : isSuccess(passed[i])}

\* C21: the success branch of backtrack() runs at most once in a search; the
\* first invocation entered with the goal state writes its previousMoves, the
\* goal-reaching path first in depth-first order, to solutionMoves; nothing else
\* writes solutionMoves, and once written it is never replaced.
C21_WrittenOnce ==
    /\ [](Cardinality(SuccessRuns) <= 1)
    /\ [][ /\ (rpc = "call" /\ isSuccess(currentState_) /\ SuccessRuns = {}) =>
                  (solutionMoves' = previousMoves /\ solutionMoves' # <<>>)
           /\ (solutionMoves' # solutionMoves) =>
                  (rpc = "call" /\ isSuccess(currentState_) /\ SuccessRuns = {})
           /\ (solutionMoves # <<>>) => solutionMoves' = solutionMoves ]_vars

\* After solutionMoves was written the search has come to the goal state again,
\* by another path, and that invocation was pruned.
C21_Witness ==
    /\ rpc = "ret" /\ rlastRet = "pruned"
    /\ isSuccess(currentState_)
    /\ solutionMoves # <<>>
    /\ previousMoves # solutionMoves

\* C22: in every makeMove of a search from any start square, the loop over the
\* move list ends at a sentinel slot or on fullTour before its index reaches 8:
\* whenever the loop condition is about to be evaluated after ++i, the slot it
\* reads is one of moves[1..7], also when the list holds 8 candidates and no
\* sentinel.
C22_LoopInBounds ==
    /\ \A n \in 1..Len(frames) : frames[n].i < 8
    /\ (pc = "ret" /\ frames # <<>> /\ ~fullTour) => Top.i + 1 < 8

\* The outermost makeMove holds a list of 8 candidates without a sentinel, and
\* the call on one of them has returned to it with fullTour set.
C22_Witness ==
    /\ pc = "ret" /\ Len(frames) = 1 /\ fullTour
    /\ Candidates(Top.moves) = 1..8
    /\ Top.i < 8

====
